---- MODULE Spec2Model ----
(***************************************************************************)
(* ContextFlow (Web): the Express backend (server/index.js) and the React   *)
(* front end (App.tsx) as state machines.                                   *)
(*                                                                          *)
(* A JavaScript string is a sequence of tokens (pieces of text), so that    *)
(* the empty string is << >>, and prefix tests, trimming, joining and       *)
(* replacing are computed on the tokens.                                    *)
(***************************************************************************)
EXTENDS Integers, Sequences, FiniteSets, TLC

VARIABLES
    srv,        \* server: the last request handled and what was answered
    crop,       \* cropScreenshotFromScrollContainer: its input and its output
    dragging, start, end, analyzing, result, error,   \* App's useState cells
    columns,    \* App's columns state
    reqSeq,     \* reqSeqRef.current
    tasks,      \* onMouseUp continuations waiting on html2canvas or on fetch
    chats,      \* askInColumn continuations waiting on fetch
    issued,     \* history: issued[s] is the column that request s was asked in
    held        \* the mouse: the buttons that are down

vars == <<srv, crop, dragging, start, end, analyzing, result, error, columns,
          reqSeq, tasks, chats, issued, held>>

serverVars == <<srv>>
cropVars == <<crop>>
clientVars == <<dragging, start, end, analyzing, result, error, columns,
                reqSeq, tasks, chats, issued>>

(***************************************************************************)
(* JavaScript values as they arrive in a JSON body.                         *)
(***************************************************************************)
Val(ty, s, n, a) == [ty |-> ty, s |-> s, n |-> n, a |-> a]
Undef == Val("undefined", << >>, 0, << >>)
Null == Val("null", << >>, 0, << >>)
Str(s) == Val("string", s, 0, << >>)
Num(n) == Val("number", << >>, n, << >>)
Arr(a) == Val("array", << >>, 0, a)
Obj == Val("object", << >>, 0, << >>)

\* ToBoolean: what `!v` and `v || d` test.
Truthy(v) ==
    CASE v.ty = "string" -> v.s # << >>
      [] v.ty = "number" -> v.n # 0
      [] v.ty \in {"array", "object"} -> TRUE
      [] OTHER -> FALSE

IsString(v) == v.ty = "string"

Min(a, b) == IF a < b THEN a ELSE b
Max(a, b) == IF a > b THEN a ELSE b
Abs(a) == IF a < 0 THEN -a ELSE a

\* String.prototype.startsWith on token strings.
StartsWith(s, p) == Len(s) >= Len(p) /\ SubSeq(s, 1, Len(p)) = p

IsSpace(t) == t \in {" ", "\n", "\t"}

RECURSIVE TrimStart(_)
TrimStart(s) ==
    IF s # << >> /\ IsSpace(Head(s)) THEN TrimStart(Tail(s)) ELSE s

RECURSIVE TrimEnd(_)
TrimEnd(s) ==
    IF s # << >> /\ IsSpace(s[Len(s)]) THEN TrimEnd(SubSeq(s, 1, Len(s) - 1)) ELSE s

\* String.prototype.trim
Trim(s) == TrimEnd(TrimStart(s))

\* Array.prototype.slice(-n)
SliceFirst(h, n) == SubSeq(h, 1, Min(n, Len(h)))
SliceLast(h, n) == SubSeq(h, Max(1, Len(h) - n + 1), Len(h))

(***************************************************************************)
(* A parsed JSON document: null, or an object with the keys the two         *)
(* schemas and the error bodies use (a key that is absent is Undef).        *)
(***************************************************************************)
JObj(category, confidence, summary, followups, answer, err, raw) ==
    [t |-> "object", category |-> category, confidence |-> confidence,
     summary |-> summary, followups |-> followups, answer |-> answer,
     error |-> err, raw |-> raw]
JNull == [JObj(Undef, Undef, Undef, Undef, Undef, Undef, Undef) EXCEPT !.t = "null"]
JEmpty == JObj(Undef, Undef, Undef, Undef, Undef, Undef, Undef)
JError(msg) == JObj(Undef, Undef, Undef, Undef, Undef, Str(msg), Undef)
JErrorRaw(msg, raw) == JObj(Undef, Undef, Undef, Undef, Undef, Str(msg), Str(raw))

\* What the model API call can do: throw, or return output_text, which is
\* well-formed JSON for the document val or is not JSON at all.
ModelThrow(msg) == [k |-> "throw", msg |-> msg, text |-> << >>, val |-> JNull]
ModelJson(val) == [k |-> "json", msg |-> << >>, text |-> <<"json">>, val |-> val]
ModelText(text) == [k |-> "text", msg |-> << >>, text |-> text, val |-> JNull]

\* What a route handler leaves behind.
Reply(status, body, called, input) ==
    [status |-> status, body |-> body, modelCalled |-> called, modelInput |-> input]
NoInput == [instructions |-> << >>, input |-> << >>, image_url |-> << >>]

\* lines 107-119 and 203-215: JSON.parse(response.output_text), 502 when it
\* throws, otherwise res.json(parsed) as it is.
ParseAndReply(mo, input) ==
    IF mo.k = "json"
    THEN Reply(200, mo.val, TRUE, input)
    ELSE Reply(502, JErrorRaw(<<"Model did not return valid JSON">>, mo.text), TRUE, input)

\* The catch block of a route handler.
InternalError(mo, input) ==
    Reply(500,
          JError(IF mo.msg # << >> THEN mo.msg ELSE <<"Internal server error">>),
          TRUE, input)

(***************************************************************************)
(* POST /api/explain                                                        *)
(***************************************************************************)
DataImagePrefix == <<"data:", "image/">>

ExplainSystemPrompt == <<"You are an intelligent screen analysis assistant.">>

\* String(v) / v.toString() of a value that came out of JSON.parse.
JsToString(v) ==
    CASE v.ty = "string" -> v.s
      [] v.ty = "number" -> <<ToString(v.n)>>
      [] v.ty = "array" -> v.a
      [] OTHER -> <<"[object Object]">>

ExplainInput(body) ==
    LET userInstruction ==
            Trim(IF Truthy(body.instruction) THEN JsToString(body.instruction) ELSE << >>)
        extraInstruction ==
            IF Len(userInstruction) > 0
            THEN <<"Additional user instruction:">> \o userInstruction
            ELSE << >>
    IN [instructions |-> << >>,
        input |-> <<[role |-> "user", content |-> ExplainSystemPrompt \o extraInstruction]>>,
        image_url |-> body.imageDataUrl.s]

ExplainUrlAccepted(url) == StartsWith(url.s, DataImagePrefix)

ExplainHandler(body, mo) ==
    IF ~Truthy(body.imageDataUrl) \/ ~IsString(body.imageDataUrl)
    THEN Reply(400, JError(<<"imageDataUrl is required">>), FALSE, NoInput)
    ELSE IF ~ExplainUrlAccepted(body.imageDataUrl)
    THEN Reply(400, JError(<<"imageDataUrl must be a valid base64 data URL">>), FALSE, NoInput)
    ELSE IF mo.k = "throw"
    THEN InternalError(mo, ExplainInput(body))
    ELSE ParseAndReply(mo, ExplainInput(body))

(***************************************************************************)
(* POST /api/chat                                                           *)
(***************************************************************************)
HistoryLimit == 30

ChatSystemPrompt == <<"You are a helpful general-purpose assistant.", "[Screenshot Material]">>

TurnRole(m) == IF m.role = "assistant" THEN "assistant" ELSE "user"

KeepFirstTurns(h) == SliceFirst(h, HistoryLimit)

\* line 161: safeHistory.slice(-30)
KeepTurns(h) == SliceLast(h, HistoryLimit)

ChatInput(body) ==
    LET safeHistory == IF body.history.ty = "array" THEN body.history.items ELSE << >>
        kept == KeepTurns(safeHistory)
        turns == [i \in 1..Len(kept) |->
                     [role |-> TurnRole(kept[i]), content |-> kept[i].text]]
    IN [instructions |-> ChatSystemPrompt \o body.context.s,
        input |-> turns \o <<[role |-> "user", content |-> body.question.s]>>,
        image_url |-> << >>]

ChatValidateSwapped(body) ==
    IF ~Truthy(body.question) \/ ~IsString(body.question)
    THEN <<"question is required">>
    ELSE IF ~Truthy(body.context) \/ ~IsString(body.context)
    THEN <<"context is required">>
    ELSE << >>

\* lines 150-156: the message of the 400 answer, << >> when the body passes.
ChatValidate(body) ==
    IF ~Truthy(body.context) \/ ~IsString(body.context)
    THEN <<"context is required">>
    ELSE IF ~Truthy(body.question) \/ ~IsString(body.question)
    THEN <<"question is required">>
    ELSE << >>

ChatHandler(body, mo) ==
    IF ChatValidate(body) # << >>
    THEN Reply(400, JError(ChatValidate(body)), FALSE, NoInput)
    ELSE IF mo.k = "throw"
    THEN InternalError(mo, ChatInput(body))
    ELSE ParseAndReply(mo, ChatInput(body))

(***************************************************************************)
(* The server as a state machine: one request handled per step.             *)
(***************************************************************************)
MaxHist == 32

Body(img, instr, ctx, q, hist) ==
    [imageDataUrl |-> img, instruction |-> instr, context |-> ctx,
     question |-> q, history |-> hist]
NoHistory == [ty |-> "undefined", items |-> << >>]
NoBody == Body(Undef, Undef, Undef, Undef, NoHistory)

PngDataUrl == <<"data:", "image/", "png", ";base64,", "iVBORw0KGgo=">>

Urls ==
    { PngDataUrl,
      <<"data:", "image/", "svg+xml", ",", "<svg/>">>,
      <<"data:", "image/">>,
      <<"data:", "text/plain", ";base64,", "aGk=">>,
      <<"http://example.org/a.png">> }

ImageValues == {Undef, Null, Num(0), Num(5), Obj, Str(<< >>)} \cup {Str(u) : u \in Urls}
InstructionValues == {Undef, Str(<<" ">>), Str(<<" ", "be brief", " ">>)}

ExplainBodies ==
    {Body(img, ins, Undef, Undef, NoHistory) : img \in ImageValues, ins \in InstructionValues}

Analysis(summary, followups) ==
    JObj(Str(<<"math">>), Num(1), Str(summary), followups, Undef, Undef, Undef)
GoodAnalysis == Analysis(<<"a chain rule example">>, Arr(<<"which rule?">>))
BareAnalysis == Analysis(<<"a code listing">>, Arr(<< >>))
Answer(text) == JObj(Undef, Undef, Undef, Arr(<<"more?">>), Str(text), Undef, Undef)
GoodAnswer == Answer(<<"first", "\\n", "second">>)
PlainAnswer == Answer(<<"plain">>)

\* Documents the model can produce that are JSON but not the endpoint's schema.
OffSchema ==
    { JNull, JEmpty,
      [GoodAnalysis EXCEPT !.followups = Num(3)],
      [GoodAnalysis EXCEPT !.confidence = Undef],
      [PlainAnswer EXCEPT !.answer = Num(7)] }

ModelFailures ==
    {ModelThrow(<<"429 rate limit">>), ModelThrow(<< >>), ModelText(<< >>), ModelText(<<"Sorry">>)}

ExplainOutcomes ==
    ModelFailures \cup {ModelJson(v) : v \in {GoodAnalysis, BareAnalysis, PlainAnswer} \cup OffSchema}
ChatOutcomes ==
    ModelFailures \cup {ModelJson(v) : v \in {GoodAnswer, PlainAnswer, GoodAnalysis} \cup OffSchema}

HistRoles == <<"user", "assistant", "system">>

\* A history of n entries; entry i carries its index as text, and the roles
\* cycle from offset k.
HistoryOf(n, k) ==
    [ty |-> "array",
     items |-> [i \in 1..n |-> [role |-> HistRoles[((i + k) % 3) + 1], text |-> <<ToString(i)>>]]]

HistoryValues ==
    {NoHistory, [ty |-> "string", items |-> << >>], [ty |-> "object", items |-> << >>]}
        \cup {HistoryOf(n, k) : n \in 0..MaxHist, k \in 0..2}

TextValues == {Undef, Num(5), Str(<< >>), Str(<<"some text">>)}

ChatBodies ==
    {Body(Undef, Undef, c, q, h) : c \in TextValues, q \in TextValues, h \in HistoryValues}

SrvIdle == [stage |-> "idle", endpoint |-> "none", body |-> NoBody,
            reply |-> Reply(0, JNull, FALSE, NoInput)]

\* a request that express.json() has parsed and routed
Received(endpoint, body) == [SrvIdle EXCEPT !.stage = "received", !.endpoint = endpoint, !.body = body]

PostExplain ==
    /\ srv.stage = "received" /\ srv.endpoint = "explain"
    /\ \E mo \in ExplainOutcomes :
          srv' = [srv EXCEPT !.stage = "replied", !.reply = ExplainHandler(srv.body, mo)]
    /\ UNCHANGED <<cropVars, clientVars, held>>

PostChat ==
    /\ srv.stage = "received" /\ srv.endpoint = "chat"
    /\ \E mo \in ChatOutcomes :
          srv' = [srv EXCEPT !.stage = "replied", !.reply = ChatHandler(srv.body, mo)]
    /\ UNCHANGED <<cropVars, clientVars, held>>

(***************************************************************************)
(* cropScreenshotFromScrollContainer: the arithmetic after html2canvas has  *)
(* captured the visible viewport (clientWidth x clientHeight CSS pixels,    *)
(* scaled by the device pixel ratio).                                       *)
(***************************************************************************)
MinSel == 6
CropMax == 8
ViewSize == 6

Rect(x, y, w, h) == [x |-> x, y |-> y, w |-> w, h |-> h]
El(sl, st, cw, ch) == [scrollLeft |-> sl, scrollTop |-> st, clientWidth |-> cw, clientHeight |-> ch]

\* window.devicePixelRatio || 1
Dpr(raw) == IF raw # 0 THEN raw ELSE 1

Visible(el, rect) ==
    LET vx == rect.x - el.scrollLeft
        vy == rect.y - el.scrollTop
    IN ~(vx + rect.w < 0 \/ vy + rect.h < 0 \/ vx > el.clientWidth \/ vy > el.clientHeight)

\* lines 97-113: the source rectangle handed to drawImage and the size of
\* the output canvas; integer inputs and an integer ratio, so Math.floor is
\* applied to an integer.
CropRegion(el, rect, rawDpr) ==
    LET dpr == Dpr(rawDpr)
        vx == rect.x - el.scrollLeft
        vy == rect.y - el.scrollTop
        sx == Max(0, vx) * dpr
        sy == Max(0, vy) * dpr
        sw == Min(rect.w, el.clientWidth - vx) * dpr
        sh == Min(rect.h, el.clientHeight - vy) * dpr
    IN [thrown |-> ~Visible(el, rect),
        sx |-> sx, sy |-> sy, sw |-> sw, sh |-> sh,
        outW |-> Max(1, sw), outH |-> Max(1, sh)]

NoRegion == [thrown |-> FALSE, sx |-> 0, sy |-> 0, sw |-> 0, sh |-> 0, outW |-> 0, outH |-> 0]

CropInputs ==
    [el : {El(sl, st, ViewSize, ViewSize) : sl \in 0..CropMax, st \in 0..CropMax},
     rect : {Rect(x, y, w, h) : x \in 0..CropMax, y \in 0..CropMax,
                                w \in MinSel..MinSel + 1, h \in {MinSel}},
     dpr : 0..2]

CropIdle == [stage |-> "idle", el |-> El(0, 0, 0, 0), rect |-> Rect(0, 0, 0, 0), dpr |-> 0,
             out |-> NoRegion]

CropScreenshot ==
    /\ crop.stage = "in"
    /\ crop' = [crop EXCEPT !.stage = "out",
                            !.out = CropRegion(crop.el, crop.rect, crop.dpr)]
    /\ UNCHANGED <<serverVars, clientVars, held>>

(***************************************************************************)
(* App.tsx: selection by right-button drag, and the analysis it starts.     *)
(***************************************************************************)
MaxCoord == 6
MaxPending == 1

Point(x, y) == [set |-> TRUE, x |-> x, y |-> y]
NoPoint == [set |-> FALSE, x |-> 0, y |-> 0]

normalizeRect(a, b) ==
    Rect(Min(a.x, b.x), Min(a.y, b.y), Abs(a.x - b.x), Abs(a.y - b.y))

\* the useMemo cell `rect`; w = -1 stands for null
NoRect == Rect(0, 0, -1, -1)
rect == IF ~start.set \/ ~end.set THEN NoRect ELSE normalizeRect(start, end)

BigEnough(r) == ~(r = NoRect \/ r.w < MinSel \/ r.h < MinSel)

LeftButton == 0
RightButton == 2

UnchangedChat == UNCHANGED <<columns, reqSeq, chats, issued>>

onMouseDown(button, p) ==
    /\ IF button # RightButton
       THEN UNCHANGED <<dragging, start, end>>
       ELSE /\ dragging' = TRUE
            /\ start' = p
            /\ end' = p
    /\ UNCHANGED <<analyzing, result, error, tasks>>
    /\ UnchangedChat
    /\ UNCHANGED <<serverVars, cropVars>>

onMouseMove(p) ==
    /\ IF ~dragging
       THEN UNCHANGED end
       ELSE end' = p
    /\ UNCHANGED <<dragging, start, analyzing, result, error, tasks>>
    /\ UnchangedChat
    /\ UNCHANGED <<serverVars, cropVars>>

onMouseUp(button) ==
    /\ IF ~dragging \/ button # RightButton
       THEN UNCHANGED <<dragging, error, analyzing, tasks>>
       ELSE /\ dragging' = FALSE
            /\ error' = << >>
            /\ IF ~BigEnough(rect)
               THEN UNCHANGED <<analyzing, tasks>>
               ELSE /\ Len(tasks) < MaxPending
                    /\ analyzing' = TRUE
                    /\ tasks' = Append(tasks, [stage |-> "capture", rect |-> rect,
                                               body |-> NoBody])
    /\ UNCHANGED <<start, end, result>>
    /\ UnchangedChat
    /\ UNCHANGED <<serverVars, cropVars>>

\* The scroll positions and pixel ratios the page can have when html2canvas
\* resolves.
PageEls == {El(sl, st, ViewSize, ViewSize) : sl \in {0, CropMax}, st \in {0}}

\* lines 230-236: html2canvas resolves or rejects, the crop is computed, and
\* the request leaves.
Without(q, i) == [j \in 1..(Len(q) - 1) |-> IF j < i THEN q[j] ELSE q[j + 1]]

Capture(i, canvasOk, el, rawDpr) ==
    /\ i \in 1..Len(tasks) /\ tasks[i].stage = "capture"
    /\ IF ~canvasOk
       THEN /\ error' = <<"html2canvas failed">>
            /\ analyzing' = FALSE
            /\ tasks' = Without(tasks, i)
       ELSE IF CropRegion(el, tasks[i].rect, rawDpr).thrown
       THEN /\ error' = <<"Selection is outside the visible area.">>
            /\ analyzing' = FALSE
            /\ tasks' = Without(tasks, i)
       ELSE /\ tasks' = [tasks EXCEPT ![i].stage = "fetch",
                                      ![i].body = Body(Str(PngDataUrl), Str(<< >>), Undef,
                                                       Undef, NoHistory)]
            /\ UNCHANGED <<error, analyzing>>
    /\ UNCHANGED <<dragging, start, end, result>>
    /\ UnchangedChat
    /\ UNCHANGED <<serverVars, cropVars>>

ExplainInstruction ==
    <<"Explain clearly and concretely.">>
PerspectiveInstruction ==
    <<"Provide a different helpful angle.">>

\* Array.prototype.join("\n")
RECURSIVE JoinLines(_)
JoinLines(ls) ==
    IF ls = << >> THEN << >>
    ELSE IF Len(ls) = 1 THEN ls[1]
    ELSE ls[1] \o <<"\n">> \o JoinLines(Tail(ls))

\* how join renders an element: undefined and null as the empty string
JoinItem(v) == IF v.ty \in {"undefined", "null"} THEN << >> ELSE JsToString(v)

\* buildContextBase throws a TypeError when result is null, or when
\* result.followups is truthy and has no map method.
BuildThrows(res) ==
    res.t = "null" \/ (Truthy(res.followups) /\ res.followups.ty # "array")

buildContextBase(res, perspectiveTitle, perspectiveInstruction) ==
    LET fs == IF Truthy(res.followups) THEN res.followups.a ELSE << >>
    IN JoinLines(<<
          <<"You are assisting with a selected screenshot region from a PDF.">>,
          <<"Perspective: ">> \o perspectiveTitle,
          <<"Perspective instruction: ">> \o perspectiveInstruction,
          << >>,
          <<"Recognition Summary:">>,
          JoinItem(res.summary),
          << >>,
          <<"Candidate Follow-ups:">>,
          JoinLines([i \in 1..Len(fs) |-> <<ToString(i), ". ", fs[i]>>]) >>)

Column(id, title, contextBase) ==
    [id |-> id, title |-> title, contextBase |-> contextBase,
     chat |-> << >>, input |-> << >>, loading |-> FALSE]

ExplainTitle == <<"Explain">>

\* `data?.error || fallback`, as the message of the Error thrown
ErrorMessage(data, fallback) ==
    IF data.t = "object" /\ Truthy(data.error) THEN JsToString(data.error) ELSE fallback

\* uid(): a random id. It differs from every id a column, a pending request or
\* a record of the run still holds; an id nothing refers to any more can come
\* again without any handler telling the difference.
IdsInUse ==
    {columns[i].id : i \in 1..Len(columns)} \cup {c.colId : c \in chats}
        \cup {issued[i] : i \in 1..Len(issued)}
uid == CHOOSE n \in 1..(Cardinality(IdsInUse) + 1) : n \notin IdsInUse

\* lines 238-265 for a response that arrived; net = FALSE: fetch rejected.
ExplainResponse(i, net, mo) ==
    /\ i \in 1..Len(tasks) /\ tasks[i].stage = "fetch"
    /\ tasks' = Without(tasks, i)
    /\ analyzing' = FALSE
    /\ LET r == ExplainHandler(tasks[i].body, mo)
       IN IF ~net
          THEN /\ error' = <<"Failed to fetch">>
               /\ UNCHANGED <<result, columns>>
          ELSE IF r.status # 200
                  THEN /\ error' = ErrorMessage(r.body, <<"Request failed">>)
                       /\ UNCHANGED <<result, columns>>
                  ELSE /\ result' = r.body
                       /\ IF BuildThrows(r.body)
                          THEN /\ error' = <<"TypeError">>
                               /\ UNCHANGED columns
                          ELSE /\ columns' =
                                    <<Column(uid, ExplainTitle,
                                             buildContextBase(r.body, ExplainTitle,
                                                              ExplainInstruction))>>
                               /\ UNCHANGED error
    /\ UNCHANGED <<dragging, start, end, reqSeq, chats, issued>>
    /\ UNCHANGED <<serverVars, cropVars>>

(***************************************************************************)
(* App.tsx: the perspective columns and their chats.                        *)
(***************************************************************************)
MaxReq == 2
MaxCols == 2

\* the HUD shows the columns and their buttons only while result is set
HasResult == result.t = "object"

ColIndex(cols, colId) ==
    IF \E i \in 1..Len(cols) : cols[i].id = colId
    THEN CHOOSE i \in 1..Len(cols) : cols[i].id = colId /\ \A j \in 1..(i - 1) : cols[j].id # colId
    ELSE 0

\* setColumns(prev => prev.map(c => c.id === colId ? f(c) : c)), one per update
WithQuestion(cols, colId, q) ==
    [i \in 1..Len(cols) |->
        IF cols[i].id = colId
        THEN [cols[i] EXCEPT !.chat = Append(@, [role |-> "user", text |-> q]),
                             !.input = << >>, !.loading = TRUE]
        ELSE cols[i]]

WithAnswer(cols, colId, a) ==
    [i \in 1..Len(cols) |->
        IF cols[i].id = colId
        THEN [cols[i] EXCEPT !.chat = Append(@, [role |-> "assistant", text |-> a]),
                             !.loading = FALSE]
        ELSE cols[i]]

NotLoading(cols, colId) ==
    [i \in 1..Len(cols) |->
        IF cols[i].id = colId THEN [cols[i] EXCEPT !.loading = FALSE] ELSE cols[i]]

\* String.prototype.replace(/\\n/g, "\n"): a backslash followed by n becomes
\* a line feed.
Unescape(s) == [i \in 1..Len(s) |-> IF s[i] = "\\n" THEN "\n" ELSE s[i]]

askInColumn(colId, text) ==
    LET q == Trim(text)
        at == ColIndex(columns, colId)
        colSnapshot == columns[at]
        historyNext == Append(colSnapshot.chat, [role |-> "user", text |-> q])
    IN /\ error' = << >>
       /\ IF q = << >>
          THEN UNCHANGED <<columns, reqSeq, chats, issued>>
          ELSE /\ reqSeq < MaxReq
               /\ reqSeq' = reqSeq + 1
               /\ issued' = Append(issued, colId)
               /\ IF at = 0
                  THEN /\ columns' = NotLoading(WithQuestion(columns, colId, q), colId)
                       /\ UNCHANGED chats
                  ELSE /\ columns' = WithQuestion(columns, colId, q)
                       /\ chats' = chats \cup
                            {[seq |-> reqSeq + 1, colId |-> colId,
                              body |-> Body(Undef, Undef, Str(colSnapshot.contextBase), Str(q),
                                            [ty |-> "array",
                                             items |-> SliceLast(historyNext, HistoryLimit)])]}
       /\ UNCHANGED <<dragging, start, end, analyzing, result, tasks>>
       /\ UNCHANGED <<serverVars, cropVars>>

InputTexts == {<<" ", "why?", " ">>}
ChipTexts == {<<"Give me a concrete next step.">>}

onChangeInput(i, v) ==
    /\ HasResult
    /\ i \in 1..Len(columns)
    /\ columns[i].input # v
    /\ columns' = [columns EXCEPT ![i].input = v]
    /\ UNCHANGED <<dragging, start, end, analyzing, result, error, reqSeq, tasks, chats,
                   issued>>
    /\ UNCHANGED <<serverVars, cropVars>>

\* the Ask button and the Enter key of a column
onAsk(i) ==
    /\ HasResult
    /\ i \in 1..Len(columns)
    /\ ~columns[i].loading
    /\ askInColumn(columns[i].id, columns[i].input)

\* the quick-action chips of a column
onAskText(i, t) ==
    /\ HasResult
    /\ i \in 1..Len(columns)
    /\ columns[i].chat # << >>
    /\ ~columns[i].loading
    /\ askInColumn(columns[i].id, t)

\* the suggested follow-up buttons under the columns: not disabled while the
\* column is loading
onFollowup(k) ==
    LET fs == IF Truthy(result.followups) THEN result.followups.a ELSE << >>
        named == {i \in 1..Len(columns) : columns[i].title = ExplainTitle}
        explain == IF named # {} THEN CHOOSE i \in named : \A j \in named : i <= j ELSE 1
    IN /\ HasResult
       /\ k \in 1..Min(4, Len(fs))
       /\ columns # << >>
       /\ askInColumn(columns[explain].id, <<fs[k]>>)

onRemove(i) ==
    /\ HasResult
    /\ i \in 1..Len(columns)
    /\ columns' = [j \in 1..(Len(columns) - 1) |-> IF j < i THEN columns[j] ELSE columns[j + 1]]
    /\ UNCHANGED <<dragging, start, end, analyzing, result, error, reqSeq, tasks, chats,
                   issued>>
    /\ UNCHANGED <<serverVars, cropVars>>

addPerspective ==
    /\ HasResult
    /\ Len(columns) < MaxCols
    /\ LET title == <<"Perspective ", ToString(Len(columns) + 1)>>
       IN columns' = Append(columns,
              Column(uid, title,
                     buildContextBase(result, title, PerspectiveInstruction)))
    /\ UNCHANGED <<dragging, start, end, analyzing, result, error, reqSeq, tasks, chats,
                   issued>>
    /\ UNCHANGED <<serverVars, cropVars>>

endAllSessions ==
    /\ HasResult
    /\ columns' = << >>
    /\ result' = JNull
    /\ error' = << >>
    /\ start' = NoPoint
    /\ end' = NoPoint
    /\ UNCHANGED <<dragging, analyzing, reqSeq, tasks, chats, issued>>
    /\ UNCHANGED <<serverVars, cropVars>>

StaleNever(myReq, current) == FALSE

\* line 313: the response is dropped unless it answers the request issued last
Stale(myReq, current) == myReq # current

\* lines 304-327 for a response that arrived; net = FALSE: fetch rejected.
ChatResponse(c, net, mo) ==
    /\ c \in chats
    /\ chats' = chats \ {c}
    /\ LET r == ChatHandler(c.body, mo)
       IN IF ~net
          THEN /\ error' = <<"Failed to fetch">>
               /\ columns' = NotLoading(columns, c.colId)
          ELSE IF r.status # 200
                  THEN /\ error' = ErrorMessage(r.body, <<"Request failed (status)">>)
                       /\ columns' = NotLoading(columns, c.colId)
                  ELSE IF Stale(c.seq, reqSeq)
                  THEN UNCHANGED <<error, columns>>
                  ELSE IF r.body.t = "null"
                  THEN /\ error' = <<"TypeError">>
                       /\ columns' = NotLoading(columns, c.colId)
                  ELSE /\ columns' =
                            WithAnswer(columns, c.colId,
                                Unescape(IF Truthy(r.body.answer)
                                         THEN JsToString(r.body.answer) ELSE << >>))
                       /\ UNCHANGED error
    /\ UNCHANGED <<dragging, start, end, analyzing, result, reqSeq, tasks, issued>>
    /\ UNCHANGED <<serverVars, cropVars>>

(***************************************************************************)
(* The state machines.                                                      *)
(***************************************************************************)
ClientInit ==
    /\ dragging = FALSE
    /\ start = NoPoint
    /\ end = NoPoint
    /\ analyzing = FALSE
    /\ result = JNull
    /\ error = << >>
    /\ columns = << >>
    /\ reqSeq = 0
    /\ tasks = << >>
    /\ chats = {}
    /\ issued = << >>

\* what the model API answers in the runs of the front end
ClientFailures == {ModelThrow(<<"429 rate limit">>)}
ClientExplainOutcomes ==
    ClientFailures \cup {ModelJson(GoodAnalysis), ModelJson(JNull)}
ClientChatOutcomes ==
    ClientFailures \cup {ModelJson(GoodAnswer), ModelJson(JNull)}

Coords == {0} \cup (MinSel - 1)..MaxCoord
Points == {Point(0, 0)} \cup {Point(x, y) : x \in Coords \ {0}, y \in Coords \ {0}}
Buttons == {LeftButton, RightButton}

(***************************************************************************)
(* The mouse. The handlers sit on the PDF scroll container: a press or a    *)
(* release over the HUD or outside the window does not reach them.          *)
(***************************************************************************)
PressInside(b, p) == b \notin held /\ held' = held \cup {b} /\ onMouseDown(b, p)
ReleaseInside(b) == b \in held /\ held' = held \ {b} /\ onMouseUp(b)
MoveInside(p) == onMouseMove(p) /\ UNCHANGED held
PressOutside(b) ==
    b \notin held /\ held' = held \cup {b} /\ UNCHANGED <<clientVars, serverVars, cropVars>>
ReleaseOutside(b) ==
    b \in held /\ held' = held \ {b} /\ UNCHANGED <<clientVars, serverVars, cropVars>>

Responses ==
    \E i \in 1..Len(tasks), net \in BOOLEAN, mo \in ClientExplainOutcomes :
        ExplainResponse(i, net, mo)

Init ==
    /\ ClientInit
    /\ held = {}
    /\ srv = SrvIdle
    /\ crop = CropIdle

\* the front end with its columns and their chats; a selection is one
\* right-button drag from corner to corner, begun while nothing is selected
\* (Clear unselects), and html2canvas succeeds
Next ==
    \/ ~start.set /\ PressInside(RightButton, Point(0, 0))
    \/ MoveInside(Point(MaxCoord, MaxCoord))
    \/ ReleaseInside(RightButton)
    \/ UNCHANGED held /\ \E i \in 1..Len(tasks) : Capture(i, TRUE, El(0, 0, ViewSize, ViewSize), 1)
    \/ UNCHANGED held /\ Responses
    \/ UNCHANGED held /\ \E i \in 1..MaxCols, v \in InputTexts : onChangeInput(i, v)
    \/ UNCHANGED held /\ \E i \in 1..MaxCols : onAsk(i)
    \/ UNCHANGED held /\ \E i \in 1..MaxCols, t \in ChipTexts : onAskText(i, t)
    \/ UNCHANGED held /\ \E k \in 1..4 : onFollowup(k)
    \/ UNCHANGED held /\ addPerspective
    \/ UNCHANGED held /\ endAllSessions
    \/ UNCHANGED held /\ \E c \in chats, net \in BOOLEAN, mo \in ClientChatOutcomes :
          ChatResponse(c, net, mo)

Spec == Init /\ [][Next]_vars

\* the selection layer under every mouse event, with everything the capture
\* and the analysis can answer, and columns added and removed
NextSelect ==
    \/ \E b \in Buttons, p \in Points : PressInside(b, p)
    \/ \E p \in Points : MoveInside(p)
    \/ \E b \in Buttons : ReleaseInside(b)
    \/ \E b \in Buttons : PressOutside(b)
    \/ \E b \in Buttons : ReleaseOutside(b)
    \/ UNCHANGED held /\ \E i \in 1..Len(tasks), ok \in BOOLEAN, el \in PageEls, d \in {0, 2} :
          Capture(i, ok, el, d)
    \/ UNCHANGED held /\ Responses
    \/ UNCHANGED held /\ addPerspective
    \/ UNCHANGED held /\ \E i \in 1..MaxCols : onRemove(i)
    \/ UNCHANGED held /\ endAllSessions

SpecSelect == Init /\ [][NextSelect]_vars

\* the backend alone
NextServer == PostExplain \/ PostChat

InitServer ==
    /\ ClientInit
    /\ held = {}
    /\ crop = CropIdle
    /\ \/ \E body \in ExplainBodies \cup {NoBody} : srv = Received("explain", body)
       \/ \E body \in ChatBodies \cup {NoBody} : srv = Received("chat", body)

SpecServer == InitServer /\ [][NextServer]_vars

\* the crop arithmetic on every input
InitCrop ==
    /\ ClientInit
    /\ held = {}
    /\ srv = SrvIdle
    /\ \E i \in CropInputs :
          crop = [stage |-> "in", el |-> i.el, rect |-> i.rect, dpr |-> i.dpr, out |-> NoRegion]

NextCrop == CropScreenshot

SpecCrop == InitCrop /\ [][NextCrop]_vars

(***************************************************************************)
(* Properties.                                                              *)
(***************************************************************************)
HasColumn(cols, id) == \E i \in 1..Len(cols) : cols[i].id = id

ChatOf(cols, id) == IF HasColumn(cols, id) THEN cols[ColIndex(cols, id)].chat ELSE << >>

Assistants(cols, id) ==
    Cardinality({k \in 1..Len(ChatOf(cols, id)) : ChatOf(cols, id)[k].role = "assistant"})

AllIds(cols) == {cols[i].id : i \in 1..Len(cols)}

\* C1: a step adds an assistant message to a column only when it handles the
\* response to the request issued last, the one whose sequence number is the
\* current value of reqSeqRef; handling the response to an earlier request
\* adds no assistant message to any column.
C1_OutOfOrderGuard ==
    [][ /\ \A id \in AllIds(columns') :
              Assistants(columns', id) > Assistants(columns, id)
                  => \E c \in chats : c \notin chats' /\ c.colId = id /\ c.seq = reqSeq
        /\ \A c \in chats :
              (c \notin chats' /\ c.seq < reqSeq)
                  => \A id \in AllIds(columns') :
                        Assistants(columns', id) <= Assistants(columns, id)
      ]_vars

\* C1 happens: the answer to request 2 is in its column while request 1 is
\* still in flight.
C1_Witness ==
    /\ reqSeq = 2
    /\ \E c \in chats : c.seq = 1
    /\ \E i \in 1..Len(columns) :
          /\ issued[2] = columns[i].id
          /\ Assistants(columns, columns[i].id) = 1

GoodAnswerText == Unescape(GoodAnswer.answer.s)

\* C2: when requests for two different columns are in flight together and the
\* response to one of them arrives with a well-formed answer, that answer is
\* appended to the chat of the column it was asked in, whichever of the two
\* was issued first.
C2_ParallelColumns ==
    [][ \A c \in chats, d \in chats :
           ( /\ c.colId # d.colId
             /\ HasColumn(columns, c.colId) /\ HasColumn(columns, d.colId)
             /\ UNCHANGED held
             /\ ChatResponse(c, TRUE, ModelJson(GoodAnswer)) )
           => /\ ChatOf(columns', c.colId) =
                    Append(ChatOf(columns, c.colId),
                           [role |-> "assistant", text |-> GoodAnswerText])
              /\ ~columns'[ColIndex(columns', c.colId)].loading
      ]_vars

ConformsExplain(doc) ==
    /\ doc.t = "object"
    /\ doc.category.ty = "string"
    /\ doc.confidence.ty = "number"
    /\ doc.summary.ty = "string"
    /\ doc.followups.ty = "array"
    /\ doc.answer = Undef /\ doc.error = Undef /\ doc.raw = Undef

ConformsChat(doc) ==
    /\ doc.t = "object"
    /\ doc.answer.ty = "string"
    /\ doc.followups.ty = "array"
    /\ doc.category = Undef /\ doc.confidence = Undef /\ doc.summary = Undef
    /\ doc.error = Undef /\ doc.raw = Undef

\* C3: an endpoint answers 200 only with a document that conforms to its
\* schema: category, confidence, summary and followups for /api/explain,
\* answer and followups for /api/chat.
C3_SchemaValidated ==
    (srv.stage = "replied" /\ srv.reply.status = 200)
        => /\ srv.endpoint = "explain" => ConformsExplain(srv.reply.body)
           /\ srv.endpoint = "chat" => ConformsChat(srv.reply.body)

\* C4: when the visibility check passes, the source region of the crop is the
\* intersection of the selection with the viewport, scaled by the pixel
\* ratio, and lies inside the captured canvas.
C4_CropIsIntersection ==
    (crop.stage = "out" /\ ~crop.out.thrown)
        => LET dpr == Dpr(crop.dpr)
               vx == crop.rect.x - crop.el.scrollLeft
               vy == crop.rect.y - crop.el.scrollTop
               left == Max(0, vx)
               top == Max(0, vy)
               right == Min(vx + crop.rect.w, crop.el.clientWidth)
               bottom == Min(vy + crop.rect.h, crop.el.clientHeight)
           IN /\ crop.out.sx = left * dpr
              /\ crop.out.sy = top * dpr
              /\ crop.out.sw = (right - left) * dpr
              /\ crop.out.sh = (bottom - top) * dpr
              /\ crop.out.sx + crop.out.sw <= crop.el.clientWidth * dpr
              /\ crop.out.sy + crop.out.sh <= crop.el.clientHeight * dpr

SelectionKept ==
    /\ dragging' = dragging
    /\ start' = start
    /\ end' = end
    /\ tasks' = tasks

\* C5: an analysis starts only on the release of the right button that ends a
\* drag whose rectangle is at least 6 px wide and high, and a request leaves
\* only for such a rectangle; a press, a move or a release with the left
\* button alone changes neither dragging nor the selection points and starts
\* nothing.
C5_RightDragOnly ==
    [][ /\ Len(tasks') > Len(tasks)
            => ReleaseInside(RightButton) /\ dragging /\ BigEnough(rect)
        /\ \A i \in 1..Len(tasks') : BigEnough(tasks'[i].rect)
        /\ \A p \in Points :
              (held = {} /\ PressInside(LeftButton, p)) => SelectionKept
        /\ \A p \in Points :
              (held = {LeftButton} /\ MoveInside(p)) => SelectionKept
        /\ (held = {LeftButton} /\ ReleaseInside(LeftButton)) => SelectionKept
      ]_vars

\* C6: handling a 200 response of /api/explain makes result the returned
\* document and makes the column list exactly one "Explain" column with an
\* empty chat, an empty input, loading false and the context built from that
\* document.
C6_AnalysisReplacesColumns ==
    [][ \A i \in 1..Len(tasks), mo \in ClientExplainOutcomes :
           ( /\ tasks[i].stage = "fetch"
             /\ ExplainHandler(tasks[i].body, mo).status = 200
             /\ UNCHANGED held
             /\ ExplainResponse(i, TRUE, mo) )
           => LET data == ExplainHandler(tasks[i].body, mo).body
              IN /\ result' = data
                 /\ Len(columns') = 1
                 /\ columns'[1].title = ExplainTitle
                 /\ columns'[1].chat = << >>
                 /\ columns'[1].input = << >>
                 /\ ~columns'[1].loading
                 /\ columns'[1].contextBase =
                       buildContextBase(data, ExplainTitle, ExplainInstruction)
                 /\ columns'[1].id \notin AllIds(columns)
      ]_vars

\* a base64 image data URL: data:image/<type>;base64,<payload>
ValidBase64ImageDataUrl(v) ==
    /\ v.ty = "string"
    /\ Len(v.s) = 5
    /\ v.s[1] = "data:" /\ v.s[2] = "image/" /\ v.s[4] = ";base64,"

\* C7: /api/explain answers 400 without calling the model for every
\* imageDataUrl that is not a base64 image data URL, and calls the model only
\* for base64 image data URLs.
C7_ImageUrlValidated ==
    (srv.stage = "replied" /\ srv.endpoint = "explain")
        => /\ ~ValidBase64ImageDataUrl(srv.body.imageDataUrl)
                => srv.reply.status = 400 /\ ~srv.reply.modelCalled
           /\ srv.reply.modelCalled => ValidBase64ImageDataUrl(srv.body.imageDataUrl)

MissingText(v) == v.ty # "string" \/ v.s = << >>

\* C8: /api/chat answers 400 "context is required" when context is missing,
\* empty or no string, otherwise 400 "question is required" when question is
\* missing, empty or no string, in both cases without calling the model; it
\* answers 400 for no other reason, whatever history is.
C8_ChatValidation ==
    (srv.stage = "replied" /\ srv.endpoint = "chat")
        => /\ MissingText(srv.body.context)
                => /\ srv.reply.status = 400
                   /\ srv.reply.body.error = Str(<<"context is required">>)
                   /\ ~srv.reply.modelCalled
           /\ (~MissingText(srv.body.context) /\ MissingText(srv.body.question))
                => /\ srv.reply.status = 400
                   /\ srv.reply.body.error = Str(<<"question is required">>)
                   /\ ~srv.reply.modelCalled
           /\ (~MissingText(srv.body.context) /\ ~MissingText(srv.body.question))
                => srv.reply.status # 400 /\ srv.reply.modelCalled

\* C8 happens: both fields are missing and history is no array; and a
\* request without history is accepted.
C8_Witness ==
    /\ srv.stage = "replied" /\ srv.endpoint = "chat"
    /\ MissingText(srv.body.context) /\ MissingText(srv.body.question)
    /\ srv.body.history.ty = "string"
    /\ srv.reply.status = 400

\* C9: the messages sent to the model are the last 30 entries of history (all
\* of them when there are fewer, none when history is no array), in order,
\* each with role "assistant" exactly when its role is "assistant" and "user"
\* otherwise, followed by the question as a user message: at most 31.
C9_LastThirtyTurns ==
    (srv.stage = "replied" /\ srv.endpoint = "chat" /\ srv.reply.modelCalled)
        => LET h == IF srv.body.history.ty = "array" THEN srv.body.history.items ELSE << >>
               k == IF Len(h) < 30 THEN Len(h) ELSE 30
               sent == srv.reply.modelInput.input
           IN /\ Len(sent) = k + 1
              /\ Len(sent) <= 31
              /\ \A i \in 1..k :
                    /\ sent[i].content = h[Len(h) - k + i].text
                    /\ (sent[i].role = "assistant") <=> (h[Len(h) - k + i].role = "assistant")
                    /\ sent[i].role \in {"assistant", "user"}
              /\ sent[k + 1] = [role |-> "user", content |-> srv.body.question.s]

\* C9 happens: a history longer than 30 entries was cut.
C9_Witness ==
    /\ srv.stage = "replied" /\ srv.endpoint = "chat" /\ srv.reply.modelCalled
    /\ srv.body.history.ty = "array"
    /\ Len(srv.body.history.items) > 30
    /\ Len(srv.reply.modelInput.input) = 31
    /\ \E i \in 1..30 : srv.reply.modelInput.input[i].role = "assistant"

====
